---- MODULE Spec2Model ----
(***************************************************************************)
(* A model of go-dynamic-questionnaire: construction of a questionnaire    *)
(* (New / validateQuestionnaireIntegrity) and the stateless Next call      *)
(* (answer validation, eligible questions, closing remarks, progress).     *)
(*                                                                         *)
(* Abstractions.  A condition string is represented by the expression it   *)
(* denotes ("" is NoCondition; 'answers["q"] == v', 'answers["q"] <= v',   *)
(* the constant 'false', the number '123' and the malformed '1 : 2' are    *)
(* the forms the tests, the package documentation and the example          *)
(* questionnaires use).  Answer option labels are a1, a2, ...; only their  *)
(* number matters to the code.  Go's randomised map iteration order is an  *)
(* explicit input (order) of validateAnswers.                              *)
(***************************************************************************)
EXTENDS Integers, Sequences, FiniteSets, TLC

(***************************************************************************)
(* Bounds                                                                  *)
(***************************************************************************)
MaxQuestions == 2   \* questions in a definition of the engine specification
MaxOptions == 2     \* answer options of a question
MaxRemarks == 2     \* closing remarks in a definition
MaxGraph == 3       \* questions in a dependency graph of the construction specification
MaxEdges == 3       \* declared dependencies in a dependency graph
MaxDefective == 2   \* questions in a definition of the integrity specification
MaxCallers == 2     \* goroutines that call Next on one questionnaire

(***************************************************************************)
(* Identifiers and values                                                  *)
(***************************************************************************)
QIDs == <<"q1", "q2", "q3", "q4", "q5", "q6">>
UnknownID == "zz"
OptionLabels == <<"a1", "a2", "a3", "a4", "a5", "a6">>

NoError == [Type |-> "none"]
NilResponse == [nil |-> TRUE]
NilProgress == [nil |-> TRUE]

(***************************************************************************)
(* Conditions: the expression a condition string denotes                   *)
(***************************************************************************)
NoCondition == [kind |-> "", ref |-> "", val |-> 0]
CondEq(id, v) == [kind |-> "eq", ref |-> id, val |-> v]
CondLe(id, v) == [kind |-> "le", ref |-> id, val |-> v]
CondFalse == [kind |-> "false", ref |-> "", val |-> 0]
CondNumber == [kind |-> "number", ref |-> "", val |-> 123]
CondMalformed == [kind |-> "malformed", ref |-> "", val |-> 0]
\* 1 % answers[id] == 0: the division fails at run time while id is unanswered
CondMod(id) == [kind |-> "mod", ref |-> id, val |-> 0]

\* answers[id] inside an expression: a missing key of a map[string]int
\* reads as the zero value
Fetch(answers, id) ==
    IF id \in DOMAIN answers THEN answers[id] ELSE 0

\* expr.Compile(condition, expr.Env(env))
exprCompile(cond) ==
    IF cond.kind = "malformed" THEN [Type |-> "compile"] ELSE NoError

\* expr.Run(program, env): the value the program returns, or the error of
\* a failed run
exprRun(cond, answers) ==
    CASE cond.kind = "eq" -> [isBool |-> TRUE, b |-> Fetch(answers, cond.ref) = cond.val, n |-> 0, err |-> NoError]
      [] cond.kind = "le" -> [isBool |-> TRUE, b |-> Fetch(answers, cond.ref) <= cond.val, n |-> 0, err |-> NoError]
      [] cond.kind = "false" -> [isBool |-> TRUE, b |-> FALSE, n |-> 0, err |-> NoError]
      [] cond.kind = "mod" ->
            IF Fetch(answers, cond.ref) = 0
            THEN [isBool |-> FALSE, b |-> FALSE, n |-> 0, err |-> [Type |-> "runtime"]]
            ELSE [isBool |-> TRUE, b |-> (1 % Fetch(answers, cond.ref)) = cond.val, n |-> 0, err |-> NoError]
      [] OTHER -> [isBool |-> FALSE, b |-> FALSE, n |-> cond.val, err |-> NoError]

\* mutant: the cause of a failed evaluation is dropped
evalConditionNoCause(cond, answers) ==
    IF exprCompile(cond) # NoError \/ exprRun(cond, answers).err # NoError \/ ~exprRun(cond, answers).isBool
    THEN [show |-> FALSE, err |-> [Type |-> "evaluation", Cause |-> "", Condition |-> NoCondition]]
    ELSE [show |-> exprRun(cond, answers).b, err |-> NoError]

\* compile, run and the result.(bool) assertion shared by shouldShowQuestion
\* and shouldShowClosingRemark
evalCondition(cond, answers) ==
    IF exprCompile(cond) # NoError
    THEN [show |-> FALSE,
          err |-> [Type |-> "evaluation", Cause |-> "failed to compile condition expression", Condition |-> cond]]
    ELSE LET result == exprRun(cond, answers)
         IN IF result.err # NoError
            THEN [show |-> FALSE,
                  err |-> [Type |-> "evaluation", Cause |-> "integer divide by zero", Condition |-> cond]]
            ELSE IF ~result.isBool
            THEN [show |-> FALSE,
                  err |-> [Type |-> "evaluation", Cause |-> "does not return a boolean", Condition |-> cond]]
            ELSE [show |-> result.b, err |-> NoError]

(***************************************************************************)
(* Answer validation                                                       *)
(***************************************************************************)
\* mutant: the supplied value is left out of the error
invalidQuestionIDErrorNoAnswer(questionID, answer) ==
    [Type |-> "invalid_question_id", question_id |-> questionID, answer |-> 0]

invalidQuestionIDError(questionID, answer) ==
    [Type |-> "invalid_question_id", question_id |-> questionID, answer |-> answer]

invalidAnswerRangeError(question, answer) ==
    [Type |-> "invalid_answer_range", question_id |-> question.Id,
     answer |-> answer, valid_range |-> <<1, Len(question.Answers)>>]

\* the index of the question with that ID, 0 for nil
findQuestionByID(q, id) ==
    IF \E i \in 1..Len(q.Questions) : q.Questions[i].Id = id
    THEN CHOOSE i \in 1..Len(q.Questions) :
            /\ q.Questions[i].Id = id
            /\ \A j \in 1..(i - 1) : q.Questions[j].Id # id
    ELSE 0

\* mutant: the answer is checked as a 0-based index
validateSingleAnswerZeroBased(q, questionID, answer) ==
    LET i == findQuestionByID(q, questionID)
    IN IF i = 0
       THEN invalidQuestionIDError(questionID, answer)
       ELSE IF answer < 0 \/ answer >= Len(q.Questions[i].Answers)
            THEN invalidAnswerRangeError(q.Questions[i], answer)
            ELSE NoError

validateSingleAnswer(q, questionID, answer) ==
    LET i == findQuestionByID(q, questionID)
    IN IF i = 0
       THEN invalidQuestionIDError(questionID, answer)
       ELSE IF answer < 1 \/ answer > Len(q.Questions[i].Answers)
            THEN invalidAnswerRangeError(q.Questions[i], answer)
            ELSE NoError

\* the orders in which a range loop may visit the keys of a map
RECURSIVE Orders(_)
Orders(S) ==
    IF S = {} THEN {<<>>}
    ELSE UNION {{<<k>> \o o : o \in Orders(S \ {k})} : k \in S}

\* mutant: the loop keeps checking and returns the result of the last entry
validateAnswersLastOnly(q, answers, order) ==
    IF Len(order) = 0 THEN NoError
    ELSE validateSingleAnswer(q, order[Len(order)], answers[order[Len(order)]])

RECURSIVE validateAnswersLoop(_, _, _, _)
validateAnswersLoop(q, answers, order, i) ==
    IF i > Len(order) THEN NoError
    ELSE LET e == validateSingleAnswer(q, order[i], answers[order[i]])
         IN IF e # NoError THEN e
            ELSE validateAnswersLoop(q, answers, order, i + 1)

\* mutant: an answer for a question whose condition is false under the
\* supplied answers is refused
validateAnswersEligibleOnly(q, answers, order) ==
    LET e == validateAnswersLoop(q, answers, order, 1)
        ineligible == {k \in DOMAIN answers :
                          /\ findQuestionByID(q, k) # 0
                          /\ q.Questions[findQuestionByID(q, k)].Condition # NoCondition
                          /\ evalCondition(q.Questions[findQuestionByID(q, k)].Condition, answers).err = NoError
                          /\ ~evalCondition(q.Questions[findQuestionByID(q, k)].Condition, answers).show}
    IN IF e # NoError THEN e
       ELSE IF ineligible # {}
            THEN invalidQuestionIDError(CHOOSE k \in ineligible : TRUE, answers[CHOOSE k \in ineligible : TRUE])
            ELSE NoError

\* range over the map in the given order, return the first error
validateAnswers(q, answers, order) ==
    validateAnswersLoop(q, answers, order, 1)

(***************************************************************************)
(* Eligible questions                                                      *)
(***************************************************************************)
\* mutant: no question counts as answered
isQuestionAnsweredNever(question, answers) == FALSE

isQuestionAnswered(question, answers) ==
    question.Id \in DOMAIN answers

\* mutant: a question is shown only when all its dependencies are answered
shouldShowQuestionDepsAnswered(qu, answers) ==
    IF isQuestionAnswered(qu, answers)
    THEN [show |-> FALSE, err |-> NoError, evaluated |-> FALSE]
    ELSE IF qu.Condition = NoCondition
         THEN [show |-> DOMAIN answers = {}, err |-> NoError, evaluated |-> FALSE]
         ELSE LET r == evalCondition(qu.Condition, answers)
              IN [show |-> r.show /\ \A i \in 1..Len(qu.DependsOn) : qu.DependsOn[i] \in DOMAIN answers,
                  err |-> r.err, evaluated |-> TRUE]

\* mutant: an unanswered entry question is offered again on every call
shouldShowQuestionEntryAlways(qu, answers) ==
    IF isQuestionAnswered(qu, answers)
    THEN [show |-> FALSE, err |-> NoError, evaluated |-> FALSE]
    ELSE IF qu.Condition = NoCondition
         THEN [show |-> TRUE, err |-> NoError, evaluated |-> FALSE]
         ELSE LET r == evalCondition(qu.Condition, answers)
              IN [show |-> r.show, err |-> r.err, evaluated |-> TRUE]

\* mutant: the answered check is missing
shouldShowQuestionNoAnsweredCheck(qu, answers) ==
    IF qu.Condition = NoCondition
    THEN [show |-> DOMAIN answers = {}, err |-> NoError, evaluated |-> FALSE]
    ELSE LET r == evalCondition(qu.Condition, answers)
         IN [show |-> r.show, err |-> r.err, evaluated |-> TRUE]

shouldShowQuestion(qu, answers) ==
    IF isQuestionAnswered(qu, answers)
    THEN [show |-> FALSE, err |-> NoError, evaluated |-> FALSE]
    ELSE IF qu.Condition = NoCondition
         THEN [show |-> DOMAIN answers = {}, err |-> NoError, evaluated |-> FALSE]
         ELSE LET r == evalCondition(qu.Condition, answers)
              IN [show |-> r.show, err |-> r.err, evaluated |-> TRUE]

\* Question{Id: qu.Id, Text: qu.Text, Answers: qu.Answers}
Question(qu) ==
    [Id |-> qu.Id, Text |-> qu.Text, Answers |-> qu.Answers]

RECURSIVE getNextQuestionsLoop(_, _, _, _, _)
getNextQuestionsLoop(questions, answers, i, nextQuestions, evaluated) ==
    IF i > Len(questions)
    THEN [questions |-> nextQuestions, err |-> NoError, evaluated |-> evaluated]
    ELSE LET r == shouldShowQuestion(questions[i], answers)
             ev == IF r.evaluated THEN Append(evaluated, questions[i].Id) ELSE evaluated
         IN IF r.err # NoError
            THEN [questions |-> <<>>,
                  err |-> [Stage |-> "failed to show question", Cause |-> r.err],
                  evaluated |-> ev]
            ELSE getNextQuestionsLoop(questions, answers, i + 1,
                     IF r.show THEN Append(nextQuestions, Question(questions[i])) ELSE nextQuestions, ev)

\* mutant: a question whose condition cannot be evaluated ends the loop, and
\* the questions found so far are returned
RECURSIVE getNextQuestionsLoopPartial(_, _, _, _, _)
getNextQuestionsLoopPartial(questions, answers, i, nextQuestions, evaluated) ==
    IF i > Len(questions)
    THEN [questions |-> nextQuestions, err |-> NoError, evaluated |-> evaluated]
    ELSE LET r == shouldShowQuestion(questions[i], answers)
             ev == IF r.evaluated THEN Append(evaluated, questions[i].Id) ELSE evaluated
         IN IF r.err # NoError
            THEN [questions |-> nextQuestions, err |-> NoError, evaluated |-> ev]
            ELSE getNextQuestionsLoopPartial(questions, answers, i + 1,
                     IF r.show THEN Append(nextQuestions, Question(questions[i])) ELSE nextQuestions, ev)

getNextQuestionsPartial(q, answers) ==
    getNextQuestionsLoopPartial(q.Questions, answers, 1, <<>>, <<>>)

getNextQuestions(q, answers) ==
    getNextQuestionsLoop(q.Questions, answers, 1, <<>>, <<>>)

(***************************************************************************)
(* Closing remarks                                                         *)
(***************************************************************************)
shouldShowClosingRemark(remark, answers) ==
    IF remark.Condition = NoCondition
    THEN [show |-> TRUE, err |-> NoError, evaluated |-> FALSE]
    ELSE LET r == evalCondition(remark.Condition, answers)
         IN [show |-> r.show, err |-> r.err, evaluated |-> TRUE]

\* ClosingRemark{Id: remark.Id, Text: remark.Text}
ClosingRemark(remark) ==
    [Id |-> remark.Id, Text |-> remark.Text]

RECURSIVE getClosingRemarksLoop(_, _, _, _, _)
getClosingRemarksLoop(remarks, answers, i, shown, evaluated) ==
    IF i > Len(remarks)
    THEN [remarks |-> shown, err |-> NoError, evaluated |-> evaluated]
    ELSE LET r == shouldShowClosingRemark(remarks[i], answers)
             ev == IF r.evaluated THEN Append(evaluated, i) ELSE evaluated
         IN IF r.err # NoError
            THEN [remarks |-> <<>>,
                  err |-> [Stage |-> "failed to evaluate closing remark condition", Cause |-> r.err],
                  evaluated |-> ev]
            ELSE getClosingRemarksLoop(remarks, answers, i + 1,
                     IF r.show THEN Append(shown, ClosingRemark(remarks[i])) ELSE shown, ev)

RECURSIVE dedupByID(_, _)
dedupByID(remarks, i) ==
    IF i > Len(remarks) THEN <<>>
    ELSE IF \E j \in 1..(i - 1) : remarks[j].Id = remarks[i].Id
         THEN dedupByID(remarks, i + 1)
         ELSE <<remarks[i]>> \o dedupByID(remarks, i + 1)

\* mutant: a remark with the identifier of one already kept is dropped
getClosingRemarksDedup(q, answers) ==
    LET r == getClosingRemarksLoop(q.Remarks, answers, 1, <<>>, <<>>)
    IN [remarks |-> dedupByID(r.remarks, 1), err |-> r.err, evaluated |-> r.evaluated]

getClosingRemarks(q, answers) ==
    getClosingRemarksLoop(q.Remarks, answers, 1, <<>>, <<>>)

(***************************************************************************)
(* Progress                                                                *)
(***************************************************************************)
\* mutant: the question being asked is counted as answered
calculateProgressCountsAsked(answers, availableQuestions) ==
    IF availableQuestions = 0
    THEN NilProgress
    ELSE [Current |-> Cardinality(DOMAIN answers) + 1,
          Total |-> Cardinality(DOMAIN answers) + availableQuestions]

\* mutant: total counts the eligible questions only
calculateProgressTotalOnly(answers, availableQuestions) ==
    IF availableQuestions = 0
    THEN NilProgress
    ELSE [Current |-> Cardinality(DOMAIN answers), Total |-> availableQuestions]

\* mutant: a progress value is built on completion too
calculateProgressAlways(answers, availableQuestions) ==
    [Current |-> Cardinality(DOMAIN answers),
     Total |-> Cardinality(DOMAIN answers) + availableQuestions]

calculateProgress(answers, availableQuestions) ==
    IF availableQuestions = 0
    THEN NilProgress
    ELSE [Current |-> Cardinality(DOMAIN answers),
          Total |-> Cardinality(DOMAIN answers) + availableQuestions]

(***************************************************************************)
(* Next: the result of one call                                            *)
(***************************************************************************)
\* mutant: closing remarks are resolved on every call
NextOutcomeRemarksAlways(q, answers, verr) ==
    LET qs == getNextQuestions(q, answers)
        completed == Len(qs.questions) = 0
        rs == getClosingRemarks(q, answers)
    IN IF verr # NoError
       THEN [resp |-> NilResponse, err |-> [Stage |-> "invalid answers provided", Cause |-> verr],
             evaluatedQuestions |-> <<>>, evaluatedRemarks |-> <<>>]
       ELSE IF qs.err # NoError
            THEN [resp |-> NilResponse, err |-> [Stage |-> "failed to get next questions", Cause |-> qs.err],
                  evaluatedQuestions |-> qs.evaluated, evaluatedRemarks |-> <<>>]
            ELSE IF rs.err # NoError
                 THEN [resp |-> NilResponse, err |-> [Stage |-> "failed to get closing remarks", Cause |-> rs.err],
                       evaluatedQuestions |-> qs.evaluated, evaluatedRemarks |-> rs.evaluated]
                 ELSE [resp |-> [Questions |-> qs.questions,
                                 ClosingRemarks |-> rs.remarks,
                                 Completed |-> completed,
                                 Progress |-> calculateProgress(answers, Len(qs.questions))],
                       err |-> NoError,
                       evaluatedQuestions |-> qs.evaluated, evaluatedRemarks |-> rs.evaluated]

\* mutant: the answers are validated after the questions were evaluated
NextOutcomeValidateLate(q, answers, verr) ==
    LET qs == getNextQuestions(q, answers)
        completed == Len(qs.questions) = 0
        rs == IF completed THEN getClosingRemarks(q, answers)
              ELSE [remarks |-> <<>>, err |-> NoError, evaluated |-> <<>>]
    IN IF qs.err # NoError
       THEN [resp |-> NilResponse, err |-> [Stage |-> "failed to get next questions", Cause |-> qs.err],
             evaluatedQuestions |-> qs.evaluated, evaluatedRemarks |-> <<>>]
       ELSE IF verr # NoError
            THEN [resp |-> NilResponse, err |-> [Stage |-> "invalid answers provided", Cause |-> verr],
                  evaluatedQuestions |-> qs.evaluated, evaluatedRemarks |-> <<>>]
            ELSE IF rs.err # NoError
                 THEN [resp |-> NilResponse, err |-> [Stage |-> "failed to get closing remarks", Cause |-> rs.err],
                       evaluatedQuestions |-> qs.evaluated, evaluatedRemarks |-> rs.evaluated]
                 ELSE [resp |-> [Questions |-> qs.questions,
                                 ClosingRemarks |-> rs.remarks,
                                 Completed |-> completed,
                                 Progress |-> calculateProgress(answers, Len(qs.questions))],
                       err |-> NoError,
                       evaluatedQuestions |-> qs.evaluated, evaluatedRemarks |-> rs.evaluated]

\* verr is what validateAnswers returned: the one step of Next whose result
\* depends on the iteration order of the answers
NextOutcome(q, answers, verr) ==
    LET qs == getNextQuestions(q, answers)
        completed == Len(qs.questions) = 0
        rs == IF completed THEN getClosingRemarks(q, answers)
              ELSE [remarks |-> <<>>, err |-> NoError, evaluated |-> <<>>]
    IN IF verr # NoError
       THEN [resp |-> NilResponse, err |-> [Stage |-> "invalid answers provided", Cause |-> verr],
             evaluatedQuestions |-> <<>>, evaluatedRemarks |-> <<>>]
       ELSE IF qs.err # NoError
            THEN [resp |-> NilResponse, err |-> [Stage |-> "failed to get next questions", Cause |-> qs.err],
                  evaluatedQuestions |-> qs.evaluated, evaluatedRemarks |-> <<>>]
            ELSE IF rs.err # NoError
                 THEN [resp |-> NilResponse, err |-> [Stage |-> "failed to get closing remarks", Cause |-> rs.err],
                       evaluatedQuestions |-> qs.evaluated, evaluatedRemarks |-> rs.evaluated]
                 ELSE [resp |-> [Questions |-> qs.questions,
                                 ClosingRemarks |-> rs.remarks,
                                 Completed |-> completed,
                                 Progress |-> calculateProgress(answers, Len(qs.questions))],
                       err |-> NoError,
                       evaluatedQuestions |-> qs.evaluated, evaluatedRemarks |-> rs.evaluated]

(***************************************************************************)
(* Construction: integrity validation                                      *)
(***************************************************************************)
emptyQuestionIDError == [Type |-> "empty_question_id"]

duplicateQuestionIDError(questionID) ==
    [Type |-> "duplicate_question_id", question_id |-> questionID]

emptyAnswersError(questionID) ==
    [Type |-> "empty_answers", question_id |-> questionID]

invalidDependencyError(questionID, invalidDependencyID) ==
    [Type |-> "invalid_dependency", question_id |-> questionID,
     invalid_dependency_id |-> invalidDependencyID]

\* mutant: the repeated closing element is counted in the cycle length
circularDependencyErrorPathLength(cycle) ==
    [Type |-> "circular_dependency", cycle |-> cycle, cycle_length |-> Len(cycle)]

\* mutant: the closing element of the path is lost
circularDependencyErrorOpenPath(cycle) ==
    [Type |-> "circular_dependency", cycle |-> SubSeq(cycle, 1, Len(cycle) - 1),
     cycle_length |-> Len(cycle) - 1]

circularDependencyError(cycle) ==
    [Type |-> "circular_dependency", cycle |-> cycle, cycle_length |-> Len(cycle) - 1]

conditionDependencyMismatchError(questionID, declared, condition) ==
    [Type |-> "condition_dependency_mismatch", question_id |-> questionID,
     condition |-> condition, dependencies |-> declared]

\* mutant: the answer list of a question is checked before its identifier
RECURSIVE validateQuestionsLoopAnswersFirst(_, _, _)
validateQuestionsLoopAnswersFirst(questions, i, questionIDs) ==
    IF i > Len(questions) THEN NoError
    ELSE IF Len(questions[i].Answers) = 0 THEN emptyAnswersError(questions[i].Id)
    ELSE IF questions[i].Id = "" THEN emptyQuestionIDError
    ELSE IF questions[i].Id \in questionIDs THEN duplicateQuestionIDError(questions[i].Id)
    ELSE validateQuestionsLoopAnswersFirst(questions, i + 1, questionIDs \cup {questions[i].Id})

\* mutant: a repeated identifier is accepted
RECURSIVE validateQuestionsLoopNoDuplicate(_, _, _)
validateQuestionsLoopNoDuplicate(questions, i, questionIDs) ==
    IF i > Len(questions) THEN NoError
    ELSE IF questions[i].Id = "" THEN emptyQuestionIDError
    ELSE IF Len(questions[i].Answers) = 0 THEN emptyAnswersError(questions[i].Id)
    ELSE validateQuestionsLoopNoDuplicate(questions, i + 1, questionIDs \cup {questions[i].Id})

\* the per-question loop: empty ID, duplicate ID, empty answers
RECURSIVE validateQuestionsLoop(_, _, _)
validateQuestionsLoop(questions, i, questionIDs) ==
    IF i > Len(questions) THEN NoError
    ELSE IF questions[i].Id = "" THEN emptyQuestionIDError
    ELSE IF questions[i].Id \in questionIDs THEN duplicateQuestionIDError(questions[i].Id)
    ELSE IF Len(questions[i].Answers) = 0 THEN emptyAnswersError(questions[i].Id)
    ELSE validateQuestionsLoop(questions, i + 1, questionIDs \cup {questions[i].Id})

\* every declared dependency names an existing question; questions in
\* definition order, dependencies in declared order
validateDependencies(q) ==
    LET bad == {p \in (1..Len(q.Questions)) \X (1..Len(QIDs)) :
                   /\ p[2] <= Len(q.Questions[p[1]].DependsOn)
                   /\ findQuestionByID(q, q.Questions[p[1]].DependsOn[p[2]]) = 0}
    IN IF bad = {} THEN NoError
       ELSE LET p == CHOOSE x \in bad : \A y \in bad : x[1] < y[1] \/ (x[1] = y[1] /\ x[2] <= y[2])
            IN invalidDependencyError(q.Questions[p[1]].Id, q.Questions[p[1]].DependsOn[p[2]])

\* position of id in the current path, 0 when it is not on it
IndexOf(path, id) ==
    IF \E i \in 1..Len(path) : path[i] = id
    THEN CHOOSE i \in 1..Len(path) : path[i] = id
    ELSE 0

\* depth-first search with an "in current path" marker (path) and a "fully
\* processed" marker (done); the result carries the cycle found, if any
RECURSIVE dfsVisit(_, _, _, _)
RECURSIVE dfsDependencies(_, _, _, _, _)
\* mutant: one "visited" marker; a question met again is taken for a cycle
\* whether it is on the current path or fully processed
dfsVisitOneMarker(q, id, path, done) ==
    IF id \in done THEN [cycle |-> Append(path, id), done |-> done]
    ELSE IF IndexOf(path, id) # 0
         THEN [cycle |-> Append(SubSeq(path, IndexOf(path, id), Len(path)), id), done |-> done]
         ELSE LET r == dfsDependencies(q, id, 1, Append(path, id), done)
              IN IF r.cycle # <<>> THEN r
                 ELSE [cycle |-> <<>>, done |-> r.done \cup {id}]

dfsVisit(q, id, path, done) ==
    IF id \in done THEN [cycle |-> <<>>, done |-> done]
    ELSE IF IndexOf(path, id) # 0
         THEN [cycle |-> Append(SubSeq(path, IndexOf(path, id), Len(path)), id), done |-> done]
         ELSE LET r == dfsDependencies(q, id, 1, Append(path, id), done)
              IN IF r.cycle # <<>> THEN r
                 ELSE [cycle |-> <<>>, done |-> r.done \cup {id}]

\* mutant: a dependency of a question on itself is passed over
dfsDependenciesSkipSelf(q, id, k, path, done) ==
    LET deps == q.Questions[findQuestionByID(q, id)].DependsOn
    IN IF k > Len(deps) THEN [cycle |-> <<>>, done |-> done]
       ELSE IF deps[k] = id THEN dfsDependencies(q, id, k + 1, path, done)
       ELSE LET r == dfsVisit(q, deps[k], path, done)
            IN IF r.cycle # <<>> THEN r
               ELSE dfsDependencies(q, id, k + 1, path, r.done)

dfsDependencies(q, id, k, path, done) ==
    LET deps == q.Questions[findQuestionByID(q, id)].DependsOn
    IN IF k > Len(deps) THEN [cycle |-> <<>>, done |-> done]
       ELSE LET r == dfsVisit(q, deps[k], path, done)
            IN IF r.cycle # <<>> THEN r
               ELSE dfsDependencies(q, id, k + 1, path, r.done)

\* start a search from every question, in definition order
RECURSIVE detectCycleFrom(_, _, _)
detectCycleFrom(q, i, done) ==
    IF i > Len(q.Questions) THEN <<>>
    ELSE LET r == dfsVisit(q, q.Questions[i].Id, <<>>, done)
         IN IF r.cycle # <<>> THEN r.cycle
            ELSE detectCycleFrom(q, i + 1, r.done)

validateNoCircularDependencies(q) ==
    LET cycle == detectCycleFrom(q, 1, {})
    IN IF cycle = <<>> THEN NoError ELSE circularDependencyError(cycle)

\* the question identifiers a condition looks up in answers
referencedIDs(cond) ==
    IF cond.kind \in {"eq", "le", "mod"} THEN {cond.ref} ELSE {}

SeqToSet(s) == {s[i] : i \in 1..Len(s)}

\* the declared dependencies of questions i.. in one sequence
RECURSIVE FlattenDependencies(_, _)
FlattenDependencies(questions, i) ==
    IF i > Len(questions) THEN <<>>
    ELSE questions[i].DependsOn \o FlattenDependencies(questions, i + 1)

\* mutant: a declared dependency the condition never looks up is accepted
validateConditionDependenciesSubset(q) ==
    LET bad == {i \in 1..Len(q.Questions) :
                   /\ q.Questions[i].Condition # NoCondition
                   /\ ~(referencedIDs(q.Questions[i].Condition) \subseteq SeqToSet(q.Questions[i].DependsOn))}
    IN IF bad = {} THEN NoError
       ELSE LET i == CHOOSE k \in bad : \A j \in bad : k <= j
            IN conditionDependencyMismatchError(q.Questions[i].Id,
                   SeqToSet(q.Questions[i].DependsOn), referencedIDs(q.Questions[i].Condition))

validateConditionDependencies(q) ==
    LET bad == {i \in 1..Len(q.Questions) :
                   /\ q.Questions[i].Condition # NoCondition
                   /\ referencedIDs(q.Questions[i].Condition) # SeqToSet(q.Questions[i].DependsOn)}
    IN IF bad = {} THEN NoError
       ELSE LET i == CHOOSE k \in bad : \A j \in bad : k <= j
            IN conditionDependencyMismatchError(q.Questions[i].Id,
                   SeqToSet(q.Questions[i].DependsOn), referencedIDs(q.Questions[i].Condition))

validateQuestionnaireIntegrity(q) ==
    LET e1 == validateQuestionsLoop(q.Questions, 1, {})
        e2 == validateDependencies(q)
        e3 == validateNoCircularDependencies(q)
        e4 == validateConditionDependencies(q)
    IN IF e1 # NoError THEN e1
       ELSE IF e2 # NoError THEN e2
       ELSE IF e3 # NoError THEN e3
       ELSE e4

(***************************************************************************)
(* What a call of Next does to the map it is passed                        *)
(***************************************************************************)
\* mutant: looking up a missing key stores the zero value under it
lookupEffectInsert(answers, id) ==
    IF id \in DOMAIN answers THEN answers
    ELSE [k \in DOMAIN answers \cup {id} |-> IF k = id THEN 0 ELSE answers[k]]

\* the caller's map after `_, exists := answers[id]` or after answers[id]
\* in an expression: an index expression reads the map, a missing key is
\* not stored
lookupEffect(answers, id) == answers

RECURSIVE applyLookups(_, _)
applyLookups(answers, ids) ==
    IF ids = {} THEN answers
    ELSE LET id == CHOOSE x \in ids : TRUE
         IN applyLookups(lookupEffect(answers, id), ids \ {id})

\* the keys a call looked up in the answers map: the identifier of every
\* question the loop of getNextQuestions came to (isQuestionAnswered) and
\* the keys read by the conditions that were run
lookedUp(q, r) ==
    LET visited == IF r.err = NoError \/ r.err.Stage # "failed to get next questions"
                   THEN 1..Len(q.Questions)
                   ELSE 1..findQuestionByID(q, r.evaluatedQuestions[Len(r.evaluatedQuestions)])
        read(cond) == IF exprCompile(cond) = NoError THEN referencedIDs(cond) ELSE {}
    IN {q.Questions[i].Id : i \in visited}
       \cup UNION {read(q.Questions[findQuestionByID(q, id)].Condition) : id \in {r.evaluatedQuestions[k] : k \in 1..Len(r.evaluatedQuestions)}}
       \cup UNION {read(q.Remarks[j].Condition) : j \in {r.evaluatedRemarks[k] : k \in 1..Len(r.evaluatedRemarks)}}

\* the caller's map after Next has returned r; validateAnswers ranges over
\* the map and looks nothing up in it
answersAfterNext(q, answers, r) ==
    IF r.err # NoError /\ r.err.Stage = "invalid answers provided" THEN answers
    ELSE applyLookups(answers, lookedUp(q, r))

(***************************************************************************)
(* The driving loop of the command line program                            *)
(***************************************************************************)
\* mutant: the choice is returned without the range check
askQuestionUnchecked(question) == 0..(Len(question.Answers) + 1)

\* the choices askQuestion can return: it asks again until the input is a
\* number from 1 to len(question.Answers)
askQuestion(question) == 1..Len(question.Answers)

\* mutant: the answers are not kept for the next call
recordAnswersDropped(answers, questions, choice) == answers

\* for _, question := range response.Questions { answers[question.Id] = answer }
recordAnswers(answers, questions, choice) ==
    [k \in DOMAIN answers \cup {questions[i].Id : i \in 1..Len(questions)} |->
        IF \E i \in 1..Len(questions) : questions[i].Id = k THEN choice[k] ELSE answers[k]]

\* the choices for every question of a response
Choices(questions) ==
    {c \in [{questions[i].Id : i \in 1..Len(questions)} -> 0..(MaxOptions + 2)] :
        \A i \in 1..Len(questions) : c[questions[i].Id] \in askQuestion(questions[i])}

(***************************************************************************)
(* Definitions the specifications start from                               *)
(***************************************************************************)
\* the number of options of the question at position i
AnswersAt(i) == 1 + (i % MaxOptions)

Options(n) == SubSeq(OptionLabels, 1, n)

Shapes == {"entry", "eq_prev", "le_prev", "mod_prev", "false", "number", "malformed"}

\* the shapes a question at position i may take: a condition on the question
\* before it needs one
ShapesAt(i) ==
    IF i = 1 THEN Shapes \ {"eq_prev", "le_prev", "mod_prev"} ELSE Shapes \ {"false", "number"}

ShapedQuestion(i, s) ==
    [Id |-> QIDs[i], Text |-> QIDs[i], Answers |-> Options(AnswersAt(i)),
     DependsOn |-> IF s \in {"eq_prev", "le_prev", "mod_prev"} THEN <<QIDs[i - 1]>> ELSE <<>>,
     Condition |-> CASE s = "eq_prev" -> CondEq(QIDs[i - 1], 1)
                     [] s = "le_prev" -> CondLe(QIDs[i - 1], 1)
                     [] s = "mod_prev" -> CondMod(QIDs[i - 1])
                     [] s = "false" -> CondFalse
                     [] s = "number" -> CondNumber
                     [] s = "malformed" -> CondMalformed
                     [] OTHER -> NoCondition]

ShapedQuestions ==
    UNION {{[i \in 1..n |-> ShapedQuestion(i, c[i])] :
               c \in {d \in [1..n -> Shapes] : \A i \in 1..n : d[i] \in ShapesAt(i)}} :
           n \in 0..MaxQuestions}

\* closing remarks: two share an identifier, the last cannot be evaluated
RemarkSequence ==
    <<[Id |-> "thanks", Text |-> "t1", Condition |-> NoCondition],
      [Id |-> "thanks", Text |-> "t2", Condition |-> CondEq(QIDs[1], 1)],
      [Id |-> "oops", Text |-> "t3", Condition |-> CondMalformed]>>

\* the runs of at most MaxRemarks consecutive remarks of RemarkSequence
RemarkLists ==
    UNION {{SubSeq(RemarkSequence, i, i + m - 1) :
               m \in {k \in 0..MaxRemarks : i + k - 1 <= Len(RemarkSequence)}} :
           i \in 1..Len(RemarkSequence)}

EngineConfigs ==
    {[Questions |-> qs, Remarks |-> r] : qs \in ShapedQuestions, r \in RemarkLists}

\* dependency graphs: up to MaxGraph questions without condition and up to
\* MaxEdges declared dependencies, some of them on a question that is missing
GraphQuestion(i, deps) ==
    [Id |-> QIDs[i], Text |-> QIDs[i], Answers |-> Options(1),
     DependsOn |-> deps, Condition |-> NoCondition]

\* the subsets of S with at most k elements
RECURSIVE SubsetsUpTo(_, _)
SubsetsUpTo(S, k) ==
    IF k = 0 THEN {{}}
    ELSE LET T == SubsetsUpTo(S, k - 1)
         IN T \cup {t \cup {x} : t \in T, x \in S}

EdgeSets(n) ==
    SubsetsUpTo((1..n) \X (SeqToSet(SubSeq(QIDs, 1, n)) \cup {UnknownID}), MaxEdges)

\* the declared dependencies of questions i..n: every order of each one's targets
RECURSIVE DependencyLists(_, _, _)
DependencyLists(E, n, i) ==
    IF i > n THEN {<<>>}
    ELSE {<<o>> \o rest : o \in Orders({e[2] : e \in {x \in E : x[1] = i}}),
                          rest \in DependencyLists(E, n, i + 1)}

GraphConfigs(n, E) ==
    {[Questions |-> [i \in 1..n |-> GraphQuestion(i, d[i])], Remarks |-> <<>>] :
        d \in DependencyLists(E, n, 1)}

\* definitions with defects: an empty or repeated identifier, no answer
\* option, a dependency on a missing question or on each other, a condition
\* that looks up a question outside or beside the declared dependencies
DefectiveQuestions ==
    {[Id |-> id, Text |-> "t", Answers |-> Options(n), DependsOn |-> deps, Condition |-> cond] :
        id \in {"", QIDs[1], QIDs[2]},
        n \in {0, 1},
        deps \in {<<>>, <<QIDs[1]>>, <<QIDs[2]>>, <<UnknownID>>},
        cond \in {NoCondition, CondEq(QIDs[1], 1), CondFalse}}

DefectiveConfigs(n) ==
    {[Questions |-> qs, Remarks |-> <<>>] : qs \in [1..n -> DefectiveQuestions]}

\* the definitions concurrent calls run on: an entry question and a second
\* question that depends on it or cannot be evaluated, with two remarks
ConcurrentConfigs ==
    {[Questions |-> <<ShapedQuestion(1, "entry"), ShapedQuestion(2, s)>>,
      Remarks |-> SubSeq(RemarkSequence, 1, 2)] : s \in {"eq_prev", "malformed"}}

\* definitions in which a question can be answered out of turn while another
\* is still to be asked: an entry question, a second that depends on it and
\* a third that depends on the second
OutOfTurnConfigs ==
    {[Questions |-> <<ShapedQuestion(1, "entry"), ShapedQuestion(2, s2), ShapedQuestion(3, s3)>>,
      Remarks |-> SubSeq(RemarkSequence, 1, 1)] :
        s2 \in {"eq_prev", "mod_prev"}, s3 \in {"eq_prev", "le_prev"}}

\* the answers concurrent callers pass: none, the first question answered
\* either way, both answered, an unknown identifier
ConcurrentAnswers ==
    {[k \in {} |-> 0],
     [k \in {QIDs[1]} |-> 1],
     [k \in {QIDs[1]} |-> 2],
     [k \in {QIDs[1], QIDs[2]} |-> 1],
     [k \in {UnknownID} |-> 1]}

NoAnswers == [k \in {} |-> 0]

\* 0 is below every range; MaxOptions is above the range of every question
\* with fewer options
AnswerValues == 0..MaxOptions

\* the answers mappings a caller passes: any known identifiers, and possibly
\* an unknown one
AnswerMaps(q) ==
    LET keys == {q.Questions[i].Id : i \in 1..Len(q.Questions)} \cup {UnknownID}
    IN {a \in UNION {[S -> AnswerValues] : S \in SUBSET keys} :
           UnknownID \in DOMAIN a => a[UnknownID] = 1}

(***************************************************************************)
(* State                                                                   *)
(***************************************************************************)
VARIABLES
    cfg,       \* the questionnaire struct filled by loadConfig
    pc,        \* "loaded", then "ready" or "failed" after New, "called" after Next
    newErr,    \* the error New returned
    answers,   \* the answers of the last call of Next
    resp,      \* the *Response of the last call
    err,       \* the error of the last call
    trace,     \* the conditions the last call evaluated
    first,     \* the *Response of the first call with these answers
    firstErr,  \* the error of the first call with these answers
    retried,   \* the last call repeated the answers of the one before
    calls,     \* the calls of Next that run concurrently, one per goroutine
    frames,    \* the local variables of the running calls
    instance,  \* the Questionnaire New returned: the definition as validated, or nil
    passed,    \* the caller's answers map as it is after the last call
    rounds,    \* the calls of Next the driving loop has made
    search     \* the cycle search of New, taken step by step

vars == <<cfg, pc, newErr, answers, resp, err, trace, first, firstErr, retried, calls, frames,
          instance, passed, rounds, search>>

NoTrace == [questions |-> <<>>, remarks |-> <<>>]

\* no goroutine has called Next
NoCalls == [c \in 1..MaxCallers |-> [pc |-> "idle", answers |-> NoAnswers, resp |-> NilResponse, err |-> NoError]]

NoFrame == [questions |-> <<>>, remarks |-> <<>>, completed |-> FALSE]

NoFrames == [c \in 1..MaxCallers |-> NoFrame]

\* New has returned no questionnaire
NilQuestionnaire == [nil |-> TRUE]

\* no cycle search is under way
NoSearch == [i |-> 0, stack |-> <<>>, done |-> {}, expanded |-> <<>>, edges |-> 0]

InitWith(configs) ==
    /\ cfg \in configs
    /\ pc = "loaded"
    /\ newErr = NoError
    /\ answers = NoAnswers
    /\ resp = NilResponse
    /\ err = NoError
    /\ trace = NoTrace
    /\ first = NilResponse
    /\ firstErr = NoError
    /\ retried = FALSE
    /\ calls = NoCalls
    /\ frames = NoFrames
    /\ instance = NilQuestionnaire
    /\ passed = NoAnswers
    /\ rounds = 0
    /\ search = NoSearch

Init == InitWith(EngineConfigs)

\* mutant: the questionnaire is returned together with the validation error
NewReturnPartial(q) ==
    [q |-> q, err |-> validateQuestionnaireIntegrity(q)]

\* what New returns for the struct loadConfig has filled: (nil, err) or (q, nil)
NewReturn(q) ==
    LET e == validateQuestionnaireIntegrity(q)
    IN IF e # NoError THEN [q |-> NilQuestionnaire, err |-> e]
       ELSE [q |-> q, err |-> NoError]

\* New: loadConfig has filled cfg; validate it
New ==
    /\ pc = "loaded"
    /\ newErr' = NewReturn(cfg).err
    /\ instance' = NewReturn(cfg).q
    /\ pc' = IF newErr' = NoError THEN "ready" ELSE "failed"
    /\ UNCHANGED <<cfg, answers, resp, err, trace, first, firstErr, retried, calls, frames, passed, rounds, search>>

\* q.Next(a) with a fresh answers value
NextCall ==
    /\ pc = "ready"
    /\ \E a \in AnswerMaps(cfg) : \E verr \in {validateAnswers(cfg, a, order) : order \in Orders(DOMAIN a)} : LET r == NextOutcome(cfg, a, verr) IN
             /\ answers' = a
             /\ resp' = r.resp
             /\ err' = r.err
             /\ trace' = [questions |-> r.evaluatedQuestions, remarks |-> r.evaluatedRemarks]
             /\ first' = r.resp
             /\ firstErr' = r.err
             /\ passed' = answersAfterNext(cfg, a, r)
    /\ pc' = "called"
    /\ retried' = FALSE
    /\ UNCHANGED <<cfg, newErr, calls, frames, instance, rounds, search>>

\* q.Next(answers) again, with the answers of the call before
NextAgain ==
    /\ pc = "called"
    /\ \E verr \in {validateAnswers(cfg, answers, order) : order \in Orders(DOMAIN answers)} : LET r == NextOutcome(cfg, answers, verr) IN
             /\ resp' = r.resp
             /\ err' = r.err
             /\ trace' = [questions |-> r.evaluatedQuestions, remarks |-> r.evaluatedRemarks]
             /\ passed' = answersAfterNext(cfg, passed, r)
    /\ retried' = TRUE
    /\ UNCHANGED <<cfg, pc, newErr, answers, first, firstErr, calls, frames, instance, rounds, search>>

\* the caller drops the response; the questionnaire keeps nothing of the call
Return ==
    /\ pc = "called"
    /\ pc' = "ready"
    /\ answers' = NoAnswers
    /\ resp' = NilResponse
    /\ err' = NoError
    /\ trace' = NoTrace
    /\ first' = NilResponse
    /\ firstErr' = NoError
    /\ retried' = FALSE
    /\ passed' = NoAnswers
    /\ UNCHANGED <<cfg, newErr, calls, frames, instance, rounds, search>>

Next == New \/ NextCall \/ NextAgain \/ Return

Spec == Init /\ [][Next]_vars

\* construction alone, over dependency graphs
InitConstruct == \E n \in 1..MaxGraph : \E E \in EdgeSets(n) : InitWith(GraphConfigs(n, E))

NextConstruct == New

SpecConstruct == InitConstruct /\ [][NextConstruct]_vars

\* construction alone, over definitions with defects
InitIntegrity == \E n \in 0..MaxDefective : InitWith(DefectiveConfigs(n))

NextIntegrity == New

SpecIntegrity == InitIntegrity /\ [][NextIntegrity]_vars

\* New and calls of Next on the definitions of OutOfTurnConfigs
InitOutOfTurn == InitWith(OutOfTurnConfigs)

SpecOutOfTurn == InitOutOfTurn /\ [][Next]_vars

(***************************************************************************)
(* The cycle search of New, one step at a time: a stack of the questions   *)
(* on the current path, each with the position of its next dependency     *)
(***************************************************************************)
Unchanged_Search == UNCHANGED <<cfg, answers, resp, err, trace, first, firstErr, retried, calls, frames, passed, rounds>>

Top == search.stack[Len(search.stack)]

Pop == SubSeq(search.stack, 1, Len(search.stack) - 1)

\* the identifiers marked "in current path"
CurrentPath == [k \in 1..Len(search.stack) |-> search.stack[k].id]

\* the checks before the cycle search fail: New returns their error
searchRejected ==
    /\ pc = "loaded"
    /\ validateQuestionsLoop(cfg.Questions, 1, {}) # NoError \/ validateDependencies(cfg) # NoError
    /\ newErr' = validateQuestionnaireIntegrity(cfg)
    /\ pc' = "failed"
    /\ UNCHANGED <<instance, search>>
    /\ Unchanged_Search

\* the checks before the cycle search pass: no question is marked
searchBegin ==
    /\ pc = "loaded"
    /\ validateQuestionsLoop(cfg.Questions, 1, {}) = NoError
    /\ validateDependencies(cfg) = NoError
    /\ pc' = "searching"
    /\ search' = [i |-> 1, stack |-> <<>>, done |-> {}, expanded |-> <<>>, edges |-> 0]
    /\ UNCHANGED <<newErr, instance>>
    /\ Unchanged_Search

\* the next question in definition order is the start of a traversal, unless
\* it is fully processed
searchStart ==
    /\ pc = "searching"
    /\ search.stack = <<>>
    /\ search.i <= Len(cfg.Questions)
    /\ LET id == cfg.Questions[search.i].Id
       IN search' = IF id \in search.done
                    THEN [search EXCEPT !.i = @ + 1]
                    ELSE [search EXCEPT !.i = @ + 1,
                                        !.stack = <<[id |-> id, k |-> 1]>>,
                                        !.expanded = Append(@, id)]
    /\ UNCHANGED <<pc, newErr, instance>>
    /\ Unchanged_Search

\* the next dependency of the question on top of the path: fully processed,
\* on the current path (a cycle), or new (expanded in its turn)
searchDependency ==
    /\ pc = "searching"
    /\ search.stack # <<>>
    /\ Top.k <= Len(cfg.Questions[findQuestionByID(cfg, Top.id)].DependsOn)
    /\ LET d == cfg.Questions[findQuestionByID(cfg, Top.id)].DependsOn[Top.k]
           stepped == [search EXCEPT !.edges = @ + 1, !.stack[Len(search.stack)].k = @ + 1]
       IN IF d \in search.done
          THEN /\ search' = stepped
               /\ UNCHANGED <<pc, newErr>>
          ELSE IF IndexOf(CurrentPath, d) # 0
               THEN /\ search' = stepped
                    /\ newErr' = circularDependencyError(
                           Append(SubSeq(CurrentPath, IndexOf(CurrentPath, d), Len(CurrentPath)), d))
                    /\ pc' = "failed"
               ELSE /\ search' = [stepped EXCEPT !.stack = Append(@, [id |-> d, k |-> 1]),
                                                 !.expanded = Append(@, d)]
                    /\ UNCHANGED <<pc, newErr>>
    /\ UNCHANGED instance
    /\ Unchanged_Search

\* mutant: a question whose dependencies are exhausted leaves the path
\* without the "fully processed" marker
searchReturnNoDone ==
    /\ pc = "searching"
    /\ search.stack # <<>>
    /\ Top.k > Len(cfg.Questions[findQuestionByID(cfg, Top.id)].DependsOn)
    /\ search' = [search EXCEPT !.stack = Pop]
    /\ UNCHANGED <<pc, newErr, instance>>
    /\ Unchanged_Search

\* the dependencies of the question on top are exhausted: it leaves the path
\* and is fully processed
searchReturn ==
    /\ pc = "searching"
    /\ search.stack # <<>>
    /\ Top.k > Len(cfg.Questions[findQuestionByID(cfg, Top.id)].DependsOn)
    /\ search' = [search EXCEPT !.stack = Pop, !.done = @ \cup {Top.id}]
    /\ UNCHANGED <<pc, newErr, instance>>
    /\ Unchanged_Search

\* every question has been a start: no cycle; the last check runs and New returns
searchEnd ==
    /\ pc = "searching"
    /\ search.stack = <<>>
    /\ search.i > Len(cfg.Questions)
    /\ newErr' = validateConditionDependencies(cfg)
    /\ pc' = IF newErr' = NoError THEN "ready" ELSE "failed"
    /\ instance' = IF newErr' = NoError THEN cfg ELSE NilQuestionnaire
    /\ UNCHANGED search
    /\ Unchanged_Search

NextSearch ==
    \/ searchRejected
    \/ searchBegin
    \/ searchStart
    \/ searchDependency
    \/ searchReturn
    \/ searchEnd

SpecSearch == InitConstruct /\ [][NextSearch]_vars

\* New runs to its return
SpecSearchFair == SpecSearch /\ WF_vars(NextSearch)

(***************************************************************************)
(* askQuestions: call Next with the answers so far; stop on an error or on *)
(* completion, otherwise ask every returned question and call again        *)
(***************************************************************************)
\* more calls than any definition in the bounds needs
MaxRounds == MaxQuestions + 2

\* response, err := questionnaire.Next(answers), and the branches on it
loopCall ==
    /\ pc = "ready"
    /\ rounds < MaxRounds
    /\ \E verr \in {validateAnswers(cfg, answers, order) : order \in Orders(DOMAIN answers)} :
           LET r == NextOutcome(cfg, answers, verr)
           IN /\ resp' = r.resp
              /\ err' = r.err
              /\ trace' = [questions |-> r.evaluatedQuestions, remarks |-> r.evaluatedRemarks]
              /\ pc' = IF r.err # NoError THEN "fatal"
                       ELSE IF r.resp.Completed THEN "completed"
                       ELSE "asked"
    /\ rounds' = rounds + 1
    /\ UNCHANGED <<cfg, newErr, answers, first, firstErr, retried, calls, frames, instance, passed, search>>

\* every question of the response is asked and its answer recorded
loopAnswer ==
    /\ pc = "asked"
    /\ \E choice \in Choices(resp.Questions) :
           answers' = recordAnswers(answers, resp.Questions, choice)
    /\ pc' = "ready"
    /\ UNCHANGED <<cfg, newErr, resp, err, trace, first, firstErr, retried, calls, frames, instance, passed, rounds, search>>

InitLoop == InitWith(EngineConfigs)

NextLoop == New \/ loopCall \/ loopAnswer

SpecLoop == InitLoop /\ [][NextLoop]_vars

\* the program keeps running and the user answers every question asked
SpecLoopFair == SpecLoop /\ WF_vars(NextLoop)

(***************************************************************************)
(* Concurrent calls: each goroutine runs the steps of Next on its own      *)
(* local variables; the steps of different goroutines interleave           *)
(***************************************************************************)
\* mutant: the intermediate results are kept in the questionnaire, which all
\* calls share
frameOfShared(c) == 1

\* questions, remarks and completed are local variables of Next: every call
\* has its own
frameOf(c) == c

Finish(c, r, e) ==
    calls' = [calls EXCEPT ![c] = [pc |-> "done", answers |-> calls[c].answers, resp |-> r, err |-> e]]

Goto(c, label) ==
    calls' = [calls EXCEPT ![c].pc = label]

\* go q.Next(a)
callNext(c) ==
    /\ pc = "ready"
    /\ calls[c].pc = "idle"
    /\ \E a \in ConcurrentAnswers :
           calls' = [calls EXCEPT ![c] = [pc |-> "validate", answers |-> a, resp |-> NilResponse, err |-> NoError]]
    /\ UNCHANGED <<cfg, pc, newErr, answers, resp, err, trace, first, firstErr, retried, frames, instance, passed, rounds, search>>

\* if err := q.validateAnswers(answers); err != nil { return nil, ... }
stepValidateAnswers(c) ==
    /\ calls[c].pc = "validate"
    /\ \E verr \in {validateAnswers(cfg, calls[c].answers, order) : order \in Orders(DOMAIN calls[c].answers)} :
           IF verr # NoError
           THEN Finish(c, NilResponse, [Stage |-> "invalid answers provided", Cause |-> verr])
           ELSE Goto(c, "questions")
    /\ UNCHANGED <<cfg, pc, newErr, answers, resp, err, trace, first, firstErr, retried, frames, instance, passed, rounds, search>>

\* questions, err := q.getNextQuestions(answers)
stepGetNextQuestions(c) ==
    /\ calls[c].pc = "questions"
    /\ LET qs == getNextQuestions(cfg, calls[c].answers)
       IN IF qs.err # NoError
          THEN /\ Finish(c, NilResponse, [Stage |-> "failed to get next questions", Cause |-> qs.err])
               /\ UNCHANGED frames
          ELSE /\ Goto(c, "remarks")
               /\ frames' = [frames EXCEPT ![frameOf(c)].questions = qs.questions]
    /\ UNCHANGED <<cfg, pc, newErr, answers, resp, err, trace, first, firstErr, retried, instance, passed, rounds, search>>

\* completed := len(questions) == 0; if completed { remarks, err = q.getClosingRemarks(answers) }
stepGetClosingRemarks(c) ==
    /\ calls[c].pc = "remarks"
    /\ LET completed == Len(frames[frameOf(c)].questions) = 0
           rs == IF completed THEN getClosingRemarks(cfg, calls[c].answers)
                 ELSE [remarks |-> <<>>, err |-> NoError, evaluated |-> <<>>]
       IN IF rs.err # NoError
          THEN /\ Finish(c, NilResponse, [Stage |-> "failed to get closing remarks", Cause |-> rs.err])
               /\ UNCHANGED frames
          ELSE /\ Goto(c, "progress")
               /\ frames' = [frames EXCEPT ![frameOf(c)].completed = completed,
                                            ![frameOf(c)].remarks = rs.remarks]
    /\ UNCHANGED <<cfg, pc, newErr, answers, resp, err, trace, first, firstErr, retried, instance, passed, rounds, search>>

\* progress := q.calculateProgress(answers, len(questions)); return &Response{...}, nil
stepReturnResponse(c) ==
    /\ calls[c].pc = "progress"
    /\ LET f == frames[frameOf(c)]
       IN Finish(c, [Questions |-> f.questions,
                     ClosingRemarks |-> f.remarks,
                     Completed |-> f.completed,
                     Progress |-> calculateProgress(calls[c].answers, Len(f.questions))], NoError)
    /\ UNCHANGED <<cfg, pc, newErr, answers, resp, err, trace, first, firstErr, retried, frames, instance, passed, rounds, search>>

InitConcurrent == InitWith(ConcurrentConfigs)

NextConcurrent ==
    \/ New
    \/ \E c \in 1..MaxCallers : callNext(c)
    \/ \E c \in 1..MaxCallers : stepValidateAnswers(c)
    \/ \E c \in 1..MaxCallers : stepGetNextQuestions(c)
    \/ \E c \in 1..MaxCallers : stepGetClosingRemarks(c)
    \/ \E c \in 1..MaxCallers : stepReturnResponse(c)

SpecConcurrent == InitConcurrent /\ [][NextConcurrent]_vars

(***************************************************************************)
(* Vocabulary of the properties                                            *)
(***************************************************************************)
Called == pc = "called"
Succeeded == Called /\ err = NoError
ValidationFailed == Called /\ err # NoError /\ err.Stage = "invalid answers provided"

QuestionCount == Len(cfg.Questions)
ReturnedIDs == {resp.Questions[k].Id : k \in 1..Len(resp.Questions)}
HasCondition(x) == x.Condition # NoCondition
Unanswered(i) == cfg.Questions[i].Id \notin DOMAIN answers

\* the predicate evaluates to the boolean true against answers
EvaluatesTrue(cond, a) ==
    /\ cond.kind \notin {"malformed", "number"}
    /\ exprRun(cond, a).err = NoError
    /\ exprRun(cond, a).isBool
    /\ exprRun(cond, a).b

\* the predicate cannot be evaluated to a boolean against answers: it does
\* not compile, its run fails, or it returns a number
Unevaluable(cond) ==
    \/ cond.kind \in {"malformed", "number"}
    \/ cond.kind = "mod" /\ Fetch(answers, cond.ref) = 0

\* answers is a valid mapping for the definition
KnownID(k) == \E i \in 1..QuestionCount : cfg.Questions[i].Id = k
OptionCount(k) == Len(cfg.Questions[CHOOSE i \in 1..QuestionCount : cfg.Questions[i].Id = k].Answers)
InRange(k) == KnownID(k) /\ answers[k] >= 1 /\ answers[k] <= OptionCount(k)
ValidAnswers == \A k \in DOMAIN answers : InRange(k)
AllAnswered == DOMAIN answers = {cfg.Questions[i].Id : i \in 1..QuestionCount}

\* the k-th smallest element of a finite set of integers
RECURSIVE Nth(_, _)
Nth(S, k) ==
    LET m == CHOOSE x \in S : \A y \in S : x <= y
    IN IF k = 1 THEN m ELSE Nth(S \ {m}, k - 1)

\* the elements of seq at the indices in S, in the order of seq
Project(seq, S) == [k \in 1..Cardinality(S) |-> seq[Nth(S, k)]]

(***************************************************************************)
(* C1. Idempotence of Next: a second call with the same answers returns    *)
(* the Response the first call returned (questions, completed, progress    *)
(* and closing remarks; no Response both times when the call fails).       *)
(***************************************************************************)
C1_Idempotent == Called => resp = first

C1_Witness ==
    /\ Succeeded /\ retried
    /\ DOMAIN answers # {}
    /\ Len(resp.Questions) > 0

(***************************************************************************)
(* C2. In every Response, an unanswered question that has a predicate is   *)
(* among the returned questions iff its predicate evaluates to true        *)
(* against the full answers mapping, whether or not the questions it       *)
(* depends on are answered.                                                *)
(***************************************************************************)
C2_PredicateDecides ==
    Succeeded =>
        \A i \in 1..QuestionCount :
            (HasCondition(cfg.Questions[i]) /\ Unanswered(i)) =>
                (cfg.Questions[i].Id \in ReturnedIDs
                    <=> EvaluatesTrue(cfg.Questions[i].Condition, answers))

\* a question is returned although the question it depends on is unanswered
C2_Witness ==
    /\ Succeeded
    /\ \E i \in 1..QuestionCount :
          /\ HasCondition(cfg.Questions[i])
          /\ cfg.Questions[i].Id \in ReturnedIDs
          /\ Len(cfg.Questions[i].DependsOn) > 0
          /\ cfg.Questions[i].DependsOn[1] \notin DOMAIN answers

(***************************************************************************)
(* C3. In every Response a question without predicate is among the         *)
(* returned questions iff answers is empty: for empty answers the returned *)
(* questions without predicate are all of them, in definition order, with  *)
(* progress.current = 0, and with at least one answer none is returned,    *)
(* answered or not.  On a definition with entry questions only, Next({})   *)
(* returns exactly those questions.                                        *)
(***************************************************************************)
EntryIndices == {i \in 1..QuestionCount : ~HasCondition(cfg.Questions[i])}
ReturnedEntryIndices == {k \in 1..Len(resp.Questions) : \E i \in EntryIndices : cfg.Questions[i].Id = resp.Questions[k].Id}

EntryQuestionsReturned ==
    /\ Project(resp.Questions, ReturnedEntryIndices)
          = [k \in 1..Cardinality(EntryIndices) |-> Question(cfg.Questions[Nth(EntryIndices, k)])]
    /\ EntryIndices # {} => (resp.Progress # NilProgress /\ resp.Progress.Current = 0)

C3_EntryOnlyAtStart ==
    /\ Succeeded =>
          /\ \A i \in EntryIndices : cfg.Questions[i].Id \in ReturnedIDs <=> DOMAIN answers = {}
          /\ DOMAIN answers = {} => EntryQuestionsReturned
    /\ (Called /\ DOMAIN answers = {} /\ EntryIndices = 1..QuestionCount /\ QuestionCount > 0) =>
          /\ Succeeded
          /\ resp.Questions = [i \in 1..QuestionCount |-> Question(cfg.Questions[i])]
          /\ resp.Progress = [Current |-> 0, Total |-> QuestionCount]

\* an entry question is still unanswered and is not offered again
C3_Witness ==
    /\ Succeeded
    /\ DOMAIN answers # {}
    /\ \E i \in EntryIndices : Unanswered(i) /\ cfg.Questions[i].Id \notin ReturnedIDs

(***************************************************************************)
(* C4. In every successful Response no returned question is a key of       *)
(* answers, and no identifier is returned twice.                           *)
(***************************************************************************)
C4_NoAnsweredNoDuplicate ==
    Succeeded =>
        /\ ReturnedIDs \cap DOMAIN answers = {}
        /\ \A k, l \in 1..Len(resp.Questions) :
              resp.Questions[k].Id = resp.Questions[l].Id => k = l

\* an answered question whose predicate is true is not returned
C4_Witness ==
    /\ Succeeded
    /\ \E i \in 1..QuestionCount :
          ~Unanswered(i) /\ EvaluatesTrue(cfg.Questions[i].Condition, answers)

(***************************************************************************)
(* C5 as stated. For every valid answers mapping whose keys are all the    *)
(* question identifiers, Next returns completed = true, no question and no *)
(* progress.                                                               *)
(***************************************************************************)
CompletedResponse ==
    /\ err = NoError
    /\ resp # NilResponse
    /\ resp.Completed
    /\ resp.Questions = <<>>
    /\ resp.Progress = NilProgress

C5_Original == (Called /\ ValidAnswers /\ AllAnswered) => CompletedResponse

(***************************************************************************)
(* C5 amended. For every valid answers mapping whose keys are all the      *)
(* question identifiers, Next returns completed = true, no question and no *)
(* progress, unless the predicate of a closing remark cannot be evaluated: *)
(* then Next fails with the closing-remark error and returns no Response.  *)
(***************************************************************************)
C5_AllAnsweredCompletes ==
    (Called /\ ValidAnswers /\ AllAnswered) =>
        IF \E j \in 1..Len(cfg.Remarks) : Unevaluable(cfg.Remarks[j].Condition)
        THEN /\ resp = NilResponse
             /\ err # NoError
             /\ err.Stage = "failed to get closing remarks"
        ELSE CompletedResponse

C5_Witness ==
    /\ Called /\ ValidAnswers /\ AllAnswered
    /\ QuestionCount > 0
    /\ CompletedResponse

(***************************************************************************)
(* C6. The validation step of Next succeeds iff every key of answers is a  *)
(* known identifier and every value lies in [1, n]; a failure reports an   *)
(* entry of answers, InvalidQuestionID for an unknown key and              *)
(* InvalidAnswerRange for a known key with a value below 1 or above n, and *)
(* no Response is returned.                                                *)
(***************************************************************************)
C6_AnswerValidation ==
    Called =>
        /\ ValidationFailed <=> ~ValidAnswers
        /\ ValidationFailed =>
              /\ resp = NilResponse
              /\ err.Cause.question_id \in DOMAIN answers
              /\ err.Cause.answer = answers[err.Cause.question_id]
              /\ ~InRange(err.Cause.question_id)
              /\ err.Cause.Type = IF KnownID(err.Cause.question_id)
                                  THEN "invalid_answer_range" ELSE "invalid_question_id"
              /\ KnownID(err.Cause.question_id) =>
                    err.Cause.valid_range = <<1, OptionCount(err.Cause.question_id)>>

\* a value above the option count is refused
C6_Witness ==
    /\ ValidationFailed
    /\ err.Cause.Type = "invalid_answer_range"
    /\ err.Cause.answer > err.Cause.valid_range[2]
    /\ \E k \in DOMAIN answers : InRange(k)

(***************************************************************************)
(* C7. In every successful Response: completed iff no question is          *)
(* returned; progress is present iff not completed; when present, current  *)
(* is the number of entries of answers and total is current plus the       *)
(* number of returned questions.                                           *)
(***************************************************************************)
C7_CompletedAndProgress ==
    Succeeded =>
        /\ resp.Completed <=> Len(resp.Questions) = 0
        /\ resp.Progress # NilProgress <=> ~resp.Completed
        /\ resp.Progress # NilProgress =>
              /\ resp.Progress.Current = Cardinality(DOMAIN answers)
              /\ resp.Progress.Total = resp.Progress.Current + Len(resp.Questions)

C7_Witness ==
    /\ Succeeded
    /\ resp.Progress # NilProgress
    /\ resp.Progress.Current > 0
    /\ resp.Progress.Total > resp.Progress.Current

(***************************************************************************)
(* C8. When Next reports completion, closingRemarks is the sequence, in    *)
(* definition order, of the closing remarks without predicate or whose     *)
(* predicate evaluates to true; remarks sharing an identifier are all      *)
(* kept.                                                                   *)
(***************************************************************************)
ApplicableRemarks ==
    {j \in 1..Len(cfg.Remarks) :
        \/ ~HasCondition(cfg.Remarks[j])
        \/ EvaluatesTrue(cfg.Remarks[j].Condition, answers)}

C8_ClosingRemarks ==
    (Succeeded /\ resp.Completed) =>
        resp.ClosingRemarks
            = [k \in 1..Cardinality(ApplicableRemarks) |->
                  [Id |-> cfg.Remarks[Nth(ApplicableRemarks, k)].Id,
                   Text |-> cfg.Remarks[Nth(ApplicableRemarks, k)].Text]]

\* two remarks with one identifier are both returned
C8_Witness ==
    /\ Succeeded /\ resp.Completed
    /\ Len(resp.ClosingRemarks) = 2
    /\ resp.ClosingRemarks[1].Id = resp.ClosingRemarks[2].Id

(***************************************************************************)
(* C9. Closing remarks are resolved only on completion: when at least one  *)
(* question is eligible, Next evaluates no closing-remark predicate and    *)
(* returns a Response without closing remarks, also when the predicate of  *)
(* a remark cannot be evaluated.                                           *)
(***************************************************************************)
SomeQuestionEligible ==
    \E i \in 1..QuestionCount :
        /\ Unanswered(i)
        /\ IF HasCondition(cfg.Questions[i])
           THEN EvaluatesTrue(cfg.Questions[i].Condition, answers)
           ELSE DOMAIN answers = {}

NoQuestionUnevaluable ==
    \A i \in 1..QuestionCount :
        (Unanswered(i) /\ HasCondition(cfg.Questions[i])) => ~Unevaluable(cfg.Questions[i].Condition)

C9_RemarksOnlyOnCompletion ==
    /\ (Succeeded /\ Len(resp.Questions) > 0) =>
          (resp.ClosingRemarks = <<>> /\ trace.remarks = <<>>)
    /\ (Called /\ ValidAnswers /\ NoQuestionUnevaluable /\ SomeQuestionEligible) =>
          (Succeeded /\ Len(resp.Questions) > 0 /\ trace.remarks = <<>>)

\* a call that is not completed succeeds although a remark cannot be evaluated
C9_Witness ==
    /\ Succeeded
    /\ Len(resp.Questions) > 0
    /\ \E j \in 1..Len(cfg.Remarks) : Unevaluable(cfg.Remarks[j].Condition)

(***************************************************************************)
(* C10 as stated. Construction of a definition whose dependency graph      *)
(* contains a cycle fails with CircularDependency, and the reported path   *)
(* is the first cycle discovered, questions taken in definition order and  *)
(* dependencies in declared order.                                         *)
(***************************************************************************)
DependsOnOf(id) ==
    cfg.Questions[CHOOSE i \in 1..QuestionCount : cfg.Questions[i].Id = id].DependsOn

QuestionIDs == {cfg.Questions[i].Id : i \in 1..QuestionCount}

\* the lassos that extend the path p of distinct questions: the paths
\* <<v1, ..., vk, vj>> along declared dependencies that come back to one of
\* their own questions
RECURSIVE Walks(_)
Walks(p) ==
    UNION {IF IndexOf(p, d) # 0 THEN {p \o <<d>>} ELSE Walks(p \o <<d>>) :
              d \in SeqToSet(DependsOnOf(p[Len(p)])) \cap QuestionIDs}

Lassos(start) == Walks(<<start>>)

\* the positions, in the declared dependency lists, of the edges w follows
Positions(w) == [i \in 1..(Len(w) - 1) |-> IndexOf(DependsOnOf(w[i]), w[i + 1])]

\* a comes before b when dependencies are tried in declared order
Before(a, b) ==
    \E i \in 1..Len(a) :
        /\ i <= Len(b)
        /\ a[i] < b[i]
        /\ \A j \in 1..(i - 1) : a[j] = b[j]

HasCycle == \E i \in 1..QuestionCount : Lassos(cfg.Questions[i].Id) # {}

\* the cycle the first lasso closes: from the node that is entered again
FirstCycle ==
    LET s == CHOOSE i \in 1..QuestionCount :
                 /\ Lassos(cfg.Questions[i].Id) # {}
                 /\ \A j \in 1..(i - 1) : Lassos(cfg.Questions[j].Id) = {}
        L == Lassos(cfg.Questions[s].Id)
        w == CHOOSE x \in L : \A y \in L \ {x} : Before(Positions(x), Positions(y))
    IN SubSeq(w, IndexOf(SubSeq(w, 1, Len(w) - 1), w[Len(w)]), Len(w))

ReportsFirstCycle ==
    /\ pc = "failed"
    /\ newErr.Type = "circular_dependency"
    /\ newErr.cycle = FirstCycle

\* the definition of the test "should detect complex circular dependencies"
IsComplexCycleTest ==
    /\ QuestionCount = 3
    /\ cfg.Questions[1].Id = "q1" /\ cfg.Questions[1].DependsOn = <<"q3">>
    /\ cfg.Questions[2].Id = "q2" /\ cfg.Questions[2].DependsOn = <<"q1">>
    /\ cfg.Questions[3].Id = "q3" /\ cfg.Questions[3].DependsOn = <<"q2">>

DependenciesExist ==
    \A i \in 1..QuestionCount : SeqToSet(cfg.Questions[i].DependsOn) \subseteq QuestionIDs

Constructed == pc # "loaded"

HasEmptyID(i) == cfg.Questions[i].Id = ""
HasDuplicateID(i) == \E j \in 1..(i - 1) : cfg.Questions[j].Id = cfg.Questions[i].Id
HasEmptyAnswers(i) == Len(cfg.Questions[i].Answers) = 0
HasUnknownDependency(i) == ~(SeqToSet(cfg.Questions[i].DependsOn) \subseteq QuestionIDs)
HasMismatch(i) ==
    /\ HasCondition(cfg.Questions[i])
    /\ referencedIDs(cfg.Questions[i].Condition) # SeqToSet(cfg.Questions[i].DependsOn)

Some(P(_)) == \E i \in 1..QuestionCount : P(i)

\* what the checks after the first three report
LaterChecks ==
    IF Some(HasUnknownDependency) THEN newErr.Type = "invalid_dependency"
    ELSE IF HasCycle THEN newErr.Type = "circular_dependency"
    ELSE IF Some(HasMismatch) THEN newErr.Type = "condition_dependency_mismatch"
    ELSE newErr = NoError /\ pc = "ready"

C11_Original ==
    Constructed =>
        IF Some(HasEmptyID) THEN newErr.Type = "empty_question_id"
        ELSE IF Some(HasDuplicateID) THEN newErr.Type = "duplicate_question_id"
        ELSE IF Some(HasEmptyAnswers) THEN newErr.Type = "empty_answers"
        ELSE LaterChecks

(***************************************************************************)
(* C11 amended. The checks empty identifier, duplicate identifier and      *)
(* empty answer list are applied together, in that order, to one question  *)
(* after the other in definition order; then come unknown dependency,      *)
(* dependency cycle and predicate/dependency mismatch, each over every     *)
(* question.  Construction returns only the first failure in that order:   *)
(* an empty answer list on an earlier question is reported rather than an  *)
(* empty identifier on a later one.                                        *)
(***************************************************************************)
Defective(i) == HasEmptyID(i) \/ HasDuplicateID(i) \/ HasEmptyAnswers(i)

C11_FirstFailureWins ==
    Constructed =>
        IF Some(Defective)
        THEN LET i == CHOOSE k \in 1..QuestionCount :
                          Defective(k) /\ \A j \in 1..(k - 1) : ~Defective(j)
             IN newErr = IF HasEmptyID(i) THEN emptyQuestionIDError
                         ELSE IF HasDuplicateID(i) THEN duplicateQuestionIDError(cfg.Questions[i].Id)
                         ELSE emptyAnswersError(cfg.Questions[i].Id)
        ELSE LaterChecks

\* an empty answer list on the first question wins over the empty
\* identifier of the second
C11_Witness ==
    /\ pc = "failed"
    /\ QuestionCount = 2
    /\ HasEmptyAnswers(1) /\ ~HasEmptyID(1)
    /\ HasEmptyID(2)
    /\ newErr.Type = "empty_answers"

(***************************************************************************)
(* C12. A definition that construction accepts has non-empty, pairwise     *)
(* distinct identifiers, at least one answer option per question and only  *)
(* dependencies on existing questions; a definition that breaks one of     *)
(* these is rejected with EmptyQuestionID, DuplicateQuestionID,            *)
(* EmptyAnswers or InvalidDependency, the error of a rule it breaks.       *)
(***************************************************************************)
C12_ValidatedDefinition ==
    /\ pc = "ready" =>
          \A i \in 1..QuestionCount :
              ~HasEmptyID(i) /\ ~HasDuplicateID(i) /\ ~HasEmptyAnswers(i) /\ ~HasUnknownDependency(i)
    /\ (Constructed /\ (Some(Defective) \/ Some(HasUnknownDependency))) =>
          /\ pc = "failed"
          /\ \/ newErr.Type = "empty_question_id" /\ Some(HasEmptyID)
             \/ /\ newErr.Type = "duplicate_question_id"
                /\ \E i \in 1..QuestionCount : HasDuplicateID(i) /\ newErr.question_id = cfg.Questions[i].Id
             \/ /\ newErr.Type = "empty_answers"
                /\ \E i \in 1..QuestionCount : HasEmptyAnswers(i) /\ newErr.question_id = cfg.Questions[i].Id
             \/ /\ newErr.Type = "invalid_dependency"
                /\ \E i \in 1..QuestionCount :
                       /\ newErr.question_id = cfg.Questions[i].Id
                       /\ newErr.invalid_dependency_id \in SeqToSet(cfg.Questions[i].DependsOn) \ QuestionIDs

\* two questions share an identifier and nothing else is wrong
C12_Witness ==
    /\ pc = "failed"
    /\ newErr.Type = "duplicate_question_id"
    /\ ~Some(HasEmptyID) /\ ~Some(HasEmptyAnswers) /\ ~Some(HasUnknownDependency)

(***************************************************************************)
(* C13. Construction succeeds only if, for every question with a           *)
(* predicate, the identifiers the predicate looks up in answers are        *)
(* exactly the declared dependencies; in a definition that passes the      *)
(* checks before this one, a predicate that looks up an undeclared         *)
(* identifier and a declared dependency that the predicate never looks up  *)
(* each make construction fail with ConditionDependencyMismatch, naming    *)
(* the first such question.                                                *)
(***************************************************************************)
PassesEarlierChecks ==
    /\ ~Some(Defective)
    /\ ~Some(HasUnknownDependency)
    /\ ~HasCycle

UndeclaredReference(i) ==
    /\ HasCondition(cfg.Questions[i])
    /\ ~(referencedIDs(cfg.Questions[i].Condition) \subseteq SeqToSet(cfg.Questions[i].DependsOn))

UnreferencedDependency(i) ==
    /\ HasCondition(cfg.Questions[i])
    /\ ~(SeqToSet(cfg.Questions[i].DependsOn) \subseteq referencedIDs(cfg.Questions[i].Condition))

Mismatched(i) == UndeclaredReference(i) \/ UnreferencedDependency(i)

UnevaluableQuestion(i) ==
    /\ Unanswered(i)
    /\ HasCondition(cfg.Questions[i])
    /\ Unevaluable(cfg.Questions[i].Condition)

C14_EvaluationErrorAborts ==
    (Called /\ Some(UnevaluableQuestion)) =>
        /\ resp = NilResponse
        /\ err # NoError
        /\ ValidAnswers => (err.Stage = "failed to get next questions" /\ err.Cause.Cause.Type = "evaluation")

\* the first question is eligible, the run of the second one's predicate fails
C14_Witness ==
    /\ Called /\ ValidAnswers
    /\ QuestionCount = 2
    /\ ~HasCondition(cfg.Questions[1]) /\ DOMAIN answers = {}
    /\ cfg.Questions[2].Condition.kind = "mod"
    /\ resp = NilResponse
    /\ err # NoError

(***************************************************************************)
(* C15 as stated. Every evaluation error returned by Next carries the      *)
(* identifier of the question or closing remark whose predicate failed,    *)
(* together with the underlying cause.                                     *)
(***************************************************************************)
EvaluationFailed ==
    /\ Called
    /\ err # NoError
    /\ err.Stage \in {"failed to get next questions", "failed to get closing remarks"}

\* the first question, in definition order, whose predicate cannot be evaluated
OffendingQuestion ==
    CHOOSE i \in 1..QuestionCount :
        UnevaluableQuestion(i) /\ \A j \in 1..(i - 1) : ~UnevaluableQuestion(j)

UnevaluableRemark(j) == Unevaluable(cfg.Remarks[j].Condition)

OffendingRemark ==
    CHOOSE j \in 1..Len(cfg.Remarks) :
        UnevaluableRemark(j) /\ \A k \in 1..(j - 1) : ~UnevaluableRemark(k)

OffendingID ==
    IF err.Stage = "failed to get next questions"
    THEN cfg.Questions[OffendingQuestion].Id
    ELSE cfg.Remarks[OffendingRemark].Id

\* the identifiers an evaluation error carries: a field naming a question,
\* and the identifiers that occur in the text of the condition it quotes
IdentifiersCarried(e) ==
    LET cause == e.Cause.Cause
    IN (IF "question_id" \in DOMAIN cause THEN {cause.question_id} ELSE {})
       \cup (IF "Condition" \in DOMAIN cause THEN {cause.Condition.ref} \ {""} ELSE {})

CauseOf(cond) ==
    [Type |-> "evaluation",
     Cause |-> CASE cond.kind = "malformed" -> "failed to compile condition expression"
                 [] cond.kind = "mod" -> "integer divide by zero"
                 [] OTHER -> "does not return a boolean",
     Condition |-> cond]

C16_StagesInOrder ==
    Called =>
        /\ ~ValidAnswers =>
              /\ ValidationFailed
              /\ err.Cause.Type \in {"invalid_question_id", "invalid_answer_range"}
              /\ resp = NilResponse
              /\ trace = NoTrace
        /\ (ValidAnswers /\ Some(UnevaluableQuestion)) =>
              /\ err # NoError
              /\ err.Stage = "failed to get next questions"
              /\ trace.remarks = <<>>
        /\ (err # NoError /\ err.Stage = "failed to get closing remarks") =>
              /\ ValidAnswers
              /\ ~Some(UnevaluableQuestion)
              /\ resp = NilResponse

\* an invalid entry, while a predicate of an unanswered question and one of
\* a remark cannot be evaluated
C16_Witness ==
    /\ ValidationFailed
    /\ Some(UnevaluableQuestion)
    /\ \E j \in 1..Len(cfg.Remarks) : UnevaluableRemark(j)
    /\ trace = NoTrace

(***************************************************************************)
(* C17 as stated. On a validated definition in which every question has a  *)
(* predicate, Next({}) returns completed = true, no question and no        *)
(* progress.                                                               *)
(***************************************************************************)
FirstCallAllConditional ==
    /\ Called
    /\ DOMAIN answers = {}
    /\ \A i \in 1..QuestionCount : HasCondition(cfg.Questions[i])

C17_Original == FirstCallAllConditional => CompletedResponse

(***************************************************************************)
(* C17 amended. On a validated definition in which every question has a    *)
(* predicate and every predicate evaluates to false against the empty      *)
(* answers (a lookup of an unanswered question reads as 0), Next({})       *)
(* returns completed = true, no question and no progress, unless the       *)
(* predicate of a closing remark cannot be evaluated.  A predicate that is *)
(* true against the empty answers makes its question eligible on the first *)
(* call, and one that cannot be evaluated makes the call fail.             *)
(***************************************************************************)
TrueAtStart(i) == EvaluatesTrue(cfg.Questions[i].Condition, NoAnswers)

C17_AllConditional ==
    FirstCallAllConditional =>
        IF Some(UnevaluableQuestion)
        THEN resp = NilResponse /\ err # NoError /\ err.Stage = "failed to get next questions"
        ELSE IF Some(TrueAtStart)
             THEN /\ Succeeded
                  /\ ~resp.Completed
                  /\ ReturnedIDs = {cfg.Questions[i].Id : i \in {k \in 1..QuestionCount : TrueAtStart(k)}}
                  /\ resp.Progress = [Current |-> 0, Total |-> Len(resp.Questions)]
             ELSE IF \E j \in 1..Len(cfg.Remarks) : UnevaluableRemark(j)
                  THEN resp = NilResponse /\ err # NoError /\ err.Stage = "failed to get closing remarks"
                  ELSE CompletedResponse

\* two questions with predicates that are false against the empty answers
C17_Witness ==
    /\ FirstCallAllConditional
    /\ QuestionCount = 2
    /\ ~Some(TrueAtStart)
    /\ CompletedResponse

(***************************************************************************)
(* C19 as stated. With several invalid entries in answers Next reports     *)
(* exactly one of them, and two calls with the same answers return the     *)
(* same validation error (type, question identifier, supplied value).      *)
(***************************************************************************)
InvalidEntries == {k \in DOMAIN answers : ~InRange(k)}

C19_Original ==
    (ValidationFailed /\ retried) => err = firstErr

(***************************************************************************)
(* C19 amended. With several invalid entries in answers Next reports       *)
(* exactly one of them: the error carries the type, the identifier and the *)
(* supplied value of one invalid entry.  Which one is not determined: it   *)
(* is the first invalid entry in the iteration order of the map, and two   *)
(* calls with the same answers can report different entries.  With a       *)
(* single invalid entry both calls return the same error.                  *)
(***************************************************************************)
ReportsEntry(e, k) ==
    /\ e.Stage = "invalid answers provided"
    /\ e.Cause.question_id = k
    /\ e.Cause.answer = answers[k]
    /\ e.Cause.Type = IF KnownID(k) THEN "invalid_answer_range" ELSE "invalid_question_id"

C19_OneInvalidEntryReported ==
    (Called /\ InvalidEntries # {}) =>
        /\ err # NoError
        /\ \E k \in InvalidEntries : ReportsEntry(err, k)
        /\ retried => \E k \in InvalidEntries : ReportsEntry(firstErr, k)
        /\ (retried /\ Cardinality(InvalidEntries) = 1) => err = firstErr

\* two calls with the same answers report different entries
C19_Witness ==
    /\ ValidationFailed /\ retried
    /\ Cardinality(InvalidEntries) = 2
    /\ err.Cause.question_id # firstErr.Cause.question_id

(***************************************************************************)
(* C18. Calls of Next that run concurrently on one validated definition,   *)
(* without synchronization, each return what the call returns when it runs *)
(* alone, under every interleaving of their steps; the definition is never *)
(* written.                                                                *)
(***************************************************************************)
\* what Next returns for these answers when it runs alone
AloneResults(a) ==
    {[resp |-> NextOutcome(cfg, a, verr).resp, err |-> NextOutcome(cfg, a, verr).err] :
        verr \in {validateAnswers(cfg, a, order) : order \in Orders(DOMAIN a)}}

C18_ConcurrentCallsIndependent ==
    /\ cfg \in ConcurrentConfigs
    /\ \A c \in 1..MaxCallers :
           calls[c].pc = "done" =>
               [resp |-> calls[c].resp, err |-> calls[c].err] \in AloneResults(calls[c].answers)

\* two calls are under way at once, one with questions to offer and one
\* without
C18_Witness ==
    /\ calls[1].pc = "progress"
    /\ calls[2].pc = "remarks"
    /\ frames[1].questions # <<>>
    /\ frames[2].questions = <<>>

(***************************************************************************)
(* C20. When the search that finds the cycle starts from a question that   *)
(* is not on the cycle, the reported path begins at the question that was  *)
(* entered again and ends by repeating it, the identifiers visited before  *)
(* the cycle was entered are not in the report, and the reported cycle     *)
(* length is the number of distinct questions on the cycle, which is the   *)
(* length of the path minus one.                                           *)
(***************************************************************************)
\* the walk of the search that closes the first cycle: from the question the
\* search started at to the question entered again
FirstLasso ==
    LET s == CHOOSE i \in 1..QuestionCount :
                 /\ Lassos(cfg.Questions[i].Id) # {}
                 /\ \A j \in 1..(i - 1) : Lassos(cfg.Questions[j].Id) = {}
        L == Lassos(cfg.Questions[s].Id)
    IN CHOOSE x \in L : \A y \in L \ {x} : Before(Positions(x), Positions(y))

\* the questions the search went through before it entered the cycle
Stem(w) == SubSeq(w, 1, IndexOf(SubSeq(w, 1, Len(w) - 1), w[Len(w)]) - 1)

CycleReported == pc = "failed" /\ newErr.Type = "circular_dependency"

EnteredFromOutside == CycleReported /\ Stem(FirstLasso) # <<>>

C20_CycleEnteredFromOutside ==
    EnteredFromOutside =>
        LET w == FirstLasso
            reported == newErr.cycle
        IN /\ reported[1] = w[Len(w)]
           /\ reported[Len(reported)] = w[Len(w)]
           /\ SeqToSet(Stem(w)) \cap SeqToSet(reported) = {}
           /\ \A i \in 1..(Len(reported) - 1) :
                  IndexOf(DependsOnOf(reported[i]), reported[i + 1]) # 0
           /\ newErr.cycle_length = Cardinality(SeqToSet(reported))
           /\ newErr.cycle_length = Len(reported) - 1

\* the search started two questions away from a cycle of one question
C20_Witness ==
    /\ EnteredFromOutside
    /\ Len(Stem(FirstLasso)) = 2
    /\ newErr.cycle_length = 1

(***************************************************************************)
(* C21. A definition whose dependency graph has no cycle is never reported *)
(* as circular. A question reached twice through different dependency     *)
(* paths is fully processed when it is reached again, and construction     *)
(* succeeds: q3 depends on q1 and on q2, which depends on q1, as           *)
(* alternative_consideration, recommend and satisfaction do in survey.yaml.*)
(***************************************************************************)
\* the shared dependency of survey.yaml
IsSurveyDiamond ==
    /\ QuestionCount = 3
    /\ cfg.Questions[1].DependsOn = <<>>
    /\ cfg.Questions[2].DependsOn = <<cfg.Questions[1].Id>>
    /\ cfg.Questions[3].DependsOn = <<cfg.Questions[1].Id, cfg.Questions[2].Id>>

C21_AcyclicNeverCircular ==
    (pc # "loaded" /\ ~HasCycle) =>
        /\ newErr.Type # "circular_dependency"
        /\ DependenciesExist => pc = "ready"

C21_Witness == IsSurveyDiamond /\ pc = "ready"

(***************************************************************************)
(* C22 as stated. A question that lists its own identifier in its declared *)
(* dependencies is rejected at construction with CircularDependency and    *)
(* the path q -> q.                                                        *)
(***************************************************************************)
SelfDependent(i) == cfg.Questions[i].Id \in SeqToSet(cfg.Questions[i].DependsOn)

ReportsSelfCycle(i) ==
    /\ pc = "failed"
    /\ newErr.Type = "circular_dependency"
    /\ newErr.cycle = <<cfg.Questions[i].Id, cfg.Questions[i].Id>>

OnlySelfCycles ==
    \A i \in 1..QuestionCount : \A w \in Lassos(cfg.Questions[i].Id) :
        w[Len(w) - 1] = w[Len(w)]

EdgeCount == Len(FlattenDependencies(cfg.Questions, 1))

SearchBounded ==
    /\ \A a, b \in 1..Len(search.expanded) : search.expanded[a] = search.expanded[b] => a = b
    /\ search.edges <= EdgeCount
    /\ Len(search.expanded) + search.edges <= QuestionCount + EdgeCount
    /\ pc \in {"ready", "failed"} => newErr = validateQuestionnaireIntegrity(cfg)

C23_CycleDetectionTerminates == []SearchBounded /\ <>(pc \in {"ready", "failed"})

\* the search of the shared dependency has taken every step the bound allows
C23_Witness ==
    /\ IsSurveyDiamond
    /\ pc = "ready"
    /\ Len(search.expanded) + search.edges = QuestionCount + EdgeCount

(***************************************************************************)
(* C24. Construction is atomic: New returns either a usable questionnaire  *)
(* and no error, or no questionnaire and an error. When the integrity      *)
(* validation fails on any question no questionnaire is returned, even     *)
(* though the questions before it passed their checks.                     *)
(***************************************************************************)
FailsIntegrity ==
    Some(Defective) \/ Some(HasUnknownDependency) \/ HasCycle \/ Some(HasMismatch)

C24_ConstructionAtomic ==
    Constructed =>
        /\ \/ instance = cfg /\ newErr = NoError /\ ~FailsIntegrity
           \/ instance = NilQuestionnaire /\ newErr # NoError
        /\ FailsIntegrity => instance = NilQuestionnaire

\* the first question passes every check, the second has no answer option
C24_Witness ==
    /\ Constructed
    /\ QuestionCount = 2
    /\ ~Defective(1) /\ ~HasUnknownDependency(1) /\ ~HasMismatch(1)
    /\ HasEmptyAnswers(2) /\ ~HasEmptyID(2) /\ ~HasDuplicateID(2)
    /\ instance = NilQuestionnaire
    /\ newErr.Type = "empty_answers"

EvaluatedIDs == {trace.questions[k] : k \in 1..Len(trace.questions)}

QuestionEvaluationFailed ==
    Called /\ err # NoError /\ err.Stage = "failed to get next questions"

C26_PredicateEvaluatedAtMostOnce ==
    Called =>
        /\ \A a, b \in 1..Len(trace.questions) : trace.questions[a] = trace.questions[b] => a = b
        /\ EvaluatedIDs \cap DOMAIN answers = {}
        /\ (\A i \in 1..QuestionCount :
               (HasCondition(cfg.Questions[i]) /\ Unevaluable(cfg.Questions[i].Condition)) => ~Unanswered(i))
             => ~QuestionEvaluationFailed

\* a call succeeds with an answer for a question whose predicate does not
\* compile, after the predicate of another question was evaluated
C26_Witness ==
    /\ Succeeded
    /\ \E i \in 1..QuestionCount :
           /\ cfg.Questions[i].Condition = CondMalformed
           /\ ~Unanswered(i)
    /\ trace.questions # <<>>

(***************************************************************************)
(* C27. The driving loop (start with no answers; call Next; unless the     *)
(* response is completed, record a valid answer for every returned         *)
(* question; repeat) terminates for every validated definition whose       *)
(* predicates evaluate without error: a completed response is reached      *)
(* after at most one call more than there are questions, because every     *)
(* round that is not completed adds to the answered questions.             *)
(***************************************************************************)
LoopStopped == pc \in {"failed", "fatal", "completed"}

LoopBounded ==
    /\ rounds <= QuestionCount + 1
    /\ pc = "ready" => Cardinality(DOMAIN answers) >= rounds
    /\ pc = "asked" => (Len(resp.Questions) >= 1 /\ ReturnedIDs \cap DOMAIN answers = {})
    /\ pc = "fatal" => err.Stage \in {"failed to get next questions", "failed to get closing remarks"}

C27_DrivingLoopTerminates == []LoopBounded /\ <>LoopStopped

\* the loop needed every call the bound allows
C27_Witness ==
    /\ pc = "completed"
    /\ QuestionCount = MaxQuestions
    /\ rounds = QuestionCount + 1

(***************************************************************************)
(* C28. In the driving loop, where the caller only adds answers for        *)
(* questions a call of Next returned, each between 1 and the number of     *)
(* options of its question, Next never fails with InvalidQuestionID or     *)
(* InvalidAnswerRange.                                                     *)
(***************************************************************************)
C28_LoopAnswersAlwaysValid ==
    /\ ValidAnswers
    /\ pc = "fatal" => err.Stage # "invalid answers provided"

\* two questions were asked in one round, answered, and the next call
\* accepted both answers
C28_Witness ==
    /\ pc = "completed"
    /\ rounds = 2
    /\ Cardinality(DOMAIN answers) = 2
    /\ \E k \in DOMAIN answers : answers[k] = OptionCount(k) /\ OptionCount(k) > 1

(***************************************************************************)
(* C29. Whenever Next returns a progress value,                            *)
(* 0 <= progress.current < progress.total <= the number of questions in    *)
(* the definition.                                                         *)
(***************************************************************************)
C29_ProgressWithinBounds ==
    (Succeeded /\ resp.Progress # NilProgress) =>
        /\ 0 <= resp.Progress.Current
        /\ resp.Progress.Current < resp.Progress.Total
        /\ resp.Progress.Total <= QuestionCount

\* one question is left of a definition whose every question counts
C29_Witness ==
    /\ Succeeded
    /\ resp.Progress # NilProgress
    /\ resp.Progress.Total = QuestionCount
    /\ resp.Progress.Current = QuestionCount - 1
    /\ QuestionCount = MaxQuestions

(***************************************************************************)
(* C30. Answer validation checks only that each key is a known identifier  *)
(* and each value is in range: Next accepts an in-range answer for a       *)
(* question that is not eligible under the supplied answers (its predicate *)
(* is false, or it was never offered), and that answer is counted in       *)
(* progress.current like any other.                                        *)
(***************************************************************************)
\* question i is answered although its predicate is false under answers
AnsweredIneligible(i) ==
    /\ ~Unanswered(i)
    /\ HasCondition(cfg.Questions[i])
    /\ ~Unevaluable(cfg.Questions[i].Condition)
    /\ ~EvaluatesTrue(cfg.Questions[i].Condition, answers)

C30_IneligibleAnswersAccepted ==
    (Called /\ ValidAnswers /\ Some(AnsweredIneligible)) =>
        /\ ~ValidationFailed
        /\ (err = NoError /\ resp.Progress # NilProgress) =>
               /\ resp.Progress.Current = Cardinality({i \in 1..QuestionCount : ~Unanswered(i)})
               /\ resp.Progress.Current >= Cardinality({i \in 1..QuestionCount : AnsweredIneligible(i)})

\* the second question is answered although its predicate is false under
\* the answer to the first; both answers are counted and the third
\* question is asked
C30_Witness ==
    /\ Succeeded
    /\ ~Unanswered(1)
    /\ AnsweredIneligible(2)
    /\ Len(resp.Questions) = 1
    /\ resp.Progress # NilProgress
    /\ resp.Progress.Current = 2
    /\ resp.Progress.Total = 3

====
